---- MODULE Spec2Model ----
(***************************************************************************)
(* Model of morerss/zhihu_stream.py: the two request handlers ZhihuStream  *)
(* and ZhihuTopic, the pagination walks of activities2rss and topic2rss,   *)
(* and the item normalizer post2rss with post_content.                     *)
(*                                                                         *)
(* Strings the code inspects character by character (identifiers, titles,  *)
(* bodies) are sequences of one-character strings.  A step of the request  *)
(* machine is the code between two awaits: the handler is a coroutine and  *)
(* an upstream fetch is its only suspension point.                         *)
(***************************************************************************)
EXTENDS Integers, Sequences, FiniteSets, TLC

VARIABLES
  handler,    \* "ZhihuStream" | "ZhihuTopic": the handler serving the request
  name,       \* the identifier captured from the request path (characters)
  digestArg,  \* raw query argument digest ("none" when absent)
  sortArg,    \* raw query argument sort ("none" when absent)
  pc,         \* position of the coroutine
  status,     \* 0 while running, then the HTTP status of the response
  posts,      \* the local list posts
  page,       \* the local counter page
  data,       \* the local data: the most recently decoded page
  fetchLog,   \* every URL handed to fetch_zhihu, in order
  delivered,  \* every page upstream delivered, in order
  lastReply,  \* outcome of the most recent fetch: "none", "ok", "empty", "fail"
  handed,     \* what was passed to base.data2rss (NoFeed before that)
  npc,        \* post2rss: "idle" | "call" | "ret"
  npost,      \* post2rss: argument post
  nextra,     \* post2rss: argument extra_types
  ndigest,    \* post2rss: the digest flag of the request
  nresult     \* post2rss: outcome of the call

vars == <<handler, name, digestArg, sortArg, pc, status, posts, page, data,
          fetchLog, delivered, lastReply, handed,
          npc, npost, nextra, ndigest, nresult>>

reqVars == <<handler, name, digestArg, sortArg, pc, status, posts, page, data,
             fetchLog, delivered, lastReply, handed>>

normVars == <<npc, npost, nextra, ndigest, nresult>>

----------------------------------------------------------------------------
(* Generic string helpers (Python str methods). *)

\* str.endswith(' ')
EndsWithSpace(s) == Len(s) > 0 /\ s[Len(s)] = " "

\* str.startswith(prefix)
StartsWith(s, prefix) ==
  Len(s) >= Len(prefix) /\ SubSeq(s, 1, Len(prefix)) = prefix

\* str.replace(old, new): leftmost non-overlapping occurrences, old non-empty
RECURSIVE Replace(_, _, _)
Replace(s, old, new) ==
  IF Len(s) < Len(old) THEN s
  ELSE IF SubSeq(s, 1, Len(old)) = old
       THEN new \o Replace(SubSeq(s, Len(old) + 1, Len(s)), old, new)
       ELSE <<Head(s)>> \o Replace(Tail(s), old, new)

\* needle in haystack, for two strings: substring test
Contains(hay, needle) ==
  \E i \in 0..(Len(hay) - Len(needle)) :
     SubSeq(hay, i + 1, i + Len(needle)) = needle

----------------------------------------------------------------------------
(* Upstream data: activity items, pages, URLs. *)

ACCEPT_VERBS == {"MEMBER_CREATE_ARTICLE", "ANSWER_CREATE"}

\* the loop constants of both while statements
MinPosts == 20
MaxPage == 3

\* Activity items upstream can deliver: x['verb'] and x['target'].
AnswerItem   == [verb |-> "ANSWER_CREATE",
                 target |-> [type |-> "answer", id |-> 1]]
ArticleItem  == [verb |-> "MEMBER_CREATE_ARTICLE",
                 target |-> [type |-> "article", id |-> 2]]
QuestionItem == [verb |-> "QUESTION_FOLLOW",
                 target |-> [type |-> "question", id |-> 3]]

RECURSIVE Rep(_, _)
Rep(block, n) == IF n = 0 THEN <<>> ELSE block \o Rep(block, n - 1)

\* The item lists a page can carry: empty, one the user filter rejects whole,
\* a short mixed one, and ones of 10 and 15 items, so that walks stop below,
\* at and above 20 posts.
MixedBlock == <<ArticleItem, QuestionItem, AnswerItem>>
PageBodies == {<<>>, <<QuestionItem>>, MixedBlock, Rep(<<AnswerItem>>, 10),
               Rep(MixedBlock, 5), Rep(<<AnswerItem>>, 15)}

NoArg == <<>>
NoUrl == [scheme |-> "", host |-> "", path |-> <<>>, arg |-> NoArg]

\* paging.next as upstream sends it: an absolute URL, http or https
NextUrls ==
  {[scheme |-> "http", host |-> "www.zhihu.com",
    path |-> <<"api", "v4", "next", "a">>, arg |-> NoArg],
   [scheme |-> "https", host |-> "www.zhihu.com",
    path |-> <<"api", "v4", "next", "b">>, arg |-> NoArg]}

NoData == [data |-> <<>>, paging |-> [is_end |-> FALSE, next |-> NoUrl]]

\* The decoded JSON of an API page.
Pages == {[data |-> b, paging |-> [is_end |-> e, next |-> u]] :
            b \in PageBodies, e \in BOOLEAN, u \in NextUrls}

\* What fetch_zhihu + json.loads gives an API call: a page, or an exception.
ApiReplies == {[ok |-> FALSE, data |-> NoData]}
              \cup {[ok |-> TRUE, data |-> p] : p \in Pages}

\* What fetch_zhihu gives an HTML scrape: exception, empty body, or a body.
HtmlReplies == {"fail", "empty", "ok"}

\* A Python value passed as extra_types: a tuple of strings, or a string.
NoExtra == [tuple |-> TRUE, elems |-> <<>>, str |-> <<>>]

NoFeed == [made |-> FALSE, posts |-> <<>>, digest |-> FALSE,
           extra_types |-> NoExtra]

\* urljoin(base, url) for the two bases used: an absolute url wins,
\* a relative one is resolved below the base path.
urljoin(base, url) ==
  IF url.scheme # "" THEN url
  ELSE [scheme |-> base.scheme, host |-> base.host,
        path |-> base.path \o url.path, arg |-> url.arg]

baseurl == [scheme |-> "https", host |-> "www.zhihu.com",
            path |-> <<"api", "v4">>, arg |-> NoArg]

\* ZhihuAPI.get_json: the URL it hands to fetch_zhihu
get_json(url) == urljoin(baseurl, url)

\* ZhihuAPI.activities: the relative URL it builds
activities_url(n) ==
  [scheme |-> "", host |-> "", path |-> <<"members", "%s", "activities">>,
   arg |-> n]

\* ZhihuAPI.topic: the relative URL it builds for sort
topic_url(id, sort) ==
  [scheme |-> "", host |-> "",
   path |-> IF sort = "hot" THEN <<"topics", "%s", "feeds", "top_activity">>
            ELSE IF sort = "newest"
                 THEN <<"topics", "%s", "feeds", "timeline_activity">>
                 ELSE <<>>,
   arg |-> id]

\* ZhihuAPI.card: the profile-card URL
card_url(n) ==
  [scheme |-> "https", host |-> "www.zhihu.com",
   path |-> <<"node", "MemberProfileCardV2">>, arg |-> n]

\* ZhihuAPI.topic_info: urljoin('https://www.zhihu.com/topic/', id)
topic_info_url(id) ==
  [scheme |-> "https", host |-> "www.zhihu.com",
   path |-> <<"topic", "%s">>, arg |-> id]

\* topic2rss: http:// next links are rewritten to https://
TopicNextUrl(next_url) ==
  IF next_url.scheme = "http" THEN [next_url EXCEPT !.scheme = "https"]
  ELSE next_url

KeepVerb(x) == x.verb \in ACCEPT_VERBS

\* mutant: the comprehension without its verb filter
RECURSIVE ActTargets_NoFilter(_)
ActTargets_NoFilter(items) ==
  IF items = <<>> THEN <<>>
  ELSE <<Head(items).target>> \o ActTargets_NoFilter(Tail(items))

\* [x['target'] for x in data['data'] if x['verb'] in ACCEPT_VERBS]
RECURSIVE ActTargets(_)
ActTargets(items) ==
  IF items = <<>> THEN <<>>
  ELSE (IF KeepVerb(Head(items)) THEN <<Head(items).target>> ELSE <<>>)
       \o ActTargets(Tail(items))

\* [x['target'] for x in data['data']]
RECURSIVE TopicTargets(_)
TopicTargets(items) ==
  IF items = <<>> THEN <<>>
  ELSE <<Head(items).target>> \o TopicTargets(Tail(items))

\* mutants of the while test: one page over, <= for <
ActLoopCond_ExtraPage(ps, pg) == Len(ps) < MinPosts /\ pg <= MaxPage
ActLoopCond_Inclusive(ps, pg) == Len(ps) <= MinPosts /\ pg < MaxPage

\* while len(posts) < 20 and page < 3   (activities2rss)
ActLoopCond(ps, pg) == Len(ps) < MinPosts /\ pg < MaxPage

\* mutant of the while test of topic2rss: one page short
TopicLoopCond_ShortBudget(ps, pg) == Len(ps) < MinPosts /\ pg < MaxPage - 1

\* while len(posts) < 20 and page < 3   (topic2rss)
TopicLoopCond(ps, pg) == Len(ps) < MinPosts /\ pg < MaxPage

----------------------------------------------------------------------------
(* The request machine. *)

Names == {<<"a", "b">>, <<"a", " ">>}
DigestArgs == {"none", "true", "false"}
SortArgs == {"none", "hot", "newest", "bogus"}

\* the frozen arguments of partial(post2rss, ...) in each caller
QuestionStr == <<"q", "u", "e", "s", "t", "i", "o", "n">>

\* activities2rss: partial(post2rss, digest=digest, pic=pic) leaves the
\* default extra_types=()
ActExtraTypes == [tuple |-> TRUE, elems |-> <<>>, str |-> <<>>]

\* topic2rss: extra_types=('question'), which is the string 'question'
TopicExtraTypes == [tuple |-> FALSE, elems |-> <<>>, str |-> QuestionStr]

\* self.get_argument('digest', False) == 'true'
DigestFlag(arg) == arg = "true"

\* sort not in ('newest', 'hot') falls back to 'hot'
SortOf(arg) == IF arg \in {"newest", "hot"} THEN arg ELSE "hot"

NormIdle ==
  /\ npc = "idle"
  /\ npost = [type |-> "none"]
  /\ nextra = NoExtra
  /\ ndigest = FALSE
  /\ nresult = [kind |-> "pending"]

Init ==
  /\ handler \in {"ZhihuStream", "ZhihuTopic"}
  /\ name \in Names
  /\ digestArg \in (IF handler = "ZhihuStream" THEN DigestArgs ELSE {"none"})
  /\ sortArg \in (IF handler = "ZhihuTopic" THEN SortArgs ELSE {"none"})
  /\ pc = "start"
  /\ status = 0
  /\ posts = <<>>
  /\ page = 0
  /\ data = NoData
  /\ fetchLog = <<>>
  /\ delivered = <<>>
  /\ lastReply = "none"
  /\ handed = NoFeed
  /\ NormIdle

\* mutant: card without the empty-body test, parsing the empty body fails
CardOutcome_NoEmptyCheck(r) ==
  IF r = "fail" THEN 500 ELSE IF r = "empty" THEN 500 ELSE 0

\* ZhihuAPI.card on the reply of fetch_zhihu: the status it ends the request
\* with, 0 when it returns the profile
CardOutcome(r) ==
  IF r = "fail" THEN 500 ELSE IF r = "empty" THEN 404 ELSE 0

\* ZhihuAPI.topic_info on the reply of fetch_zhihu, likewise
TopicInfoOutcome(r) ==
  IF r = "fail" THEN 500 ELSE IF r = "empty" THEN 404 ELSE 0

\* mutant: the exception of a page fetch is swallowed and the posts
\* collected so far are turned into a feed
RaiseOut_Partial(code) ==
  /\ pc' = "done"
  /\ status' = 200
  /\ handed' = [made |-> TRUE, posts |-> posts, digest |-> FALSE,
                extra_types |-> NoExtra]
  /\ UNCHANGED <<posts, page, data, fetchLog, delivered>>

\* An exception leaves the coroutine: nothing catches it in this module, so
\* the request ends with that status and nothing is handed to the assembler.
RaiseOut(code) ==
  /\ pc' = "done"
  /\ status' = code
  /\ UNCHANGED <<posts, page, data, fetchLog, delivered, handed>>

\* ZhihuStream.get up to its first await: the card fetch of activities2rss.
StreamGet ==
  /\ pc = "start" /\ handler = "ZhihuStream"
  /\ IF EndsWithSpace(name)
       THEN /\ pc' = "done"
            /\ status' = 404
            /\ UNCHANGED fetchLog
       ELSE /\ pc' = "await_card"
            /\ fetchLog' = Append(fetchLog, card_url(name))
            /\ UNCHANGED status
  /\ UNCHANGED <<handler, name, digestArg, sortArg, posts, page, data,
                 delivered, lastReply, handed>>
  /\ UNCHANGED normVars

\* ZhihuAPI.card resumes with the reply; on a body activities2rss goes on to
\* zhihu_api.activities(name) and awaits the first page.
CardReply(r) ==
  /\ pc = "await_card"
  /\ lastReply' = r
  /\ IF CardOutcome(r) # 0 THEN RaiseOut(CardOutcome(r))
     ELSE /\ pc' = "await_first"
          /\ fetchLog' = Append(fetchLog, get_json(activities_url(name)))
          /\ UNCHANGED <<status, posts, page, data, delivered, handed>>
  /\ UNCHANGED <<handler, name, digestArg, sortArg>>
  /\ UNCHANGED normVars

\* activities2rss after a page arrived: the while test, the is_end break, then
\* either the next get_json or data2rss / to_xml / self.finish.
ActAfterPage(ps, pg, d) ==
  /\ posts' = ps
  /\ page' = pg
  /\ data' = d
  /\ delivered' = Append(delivered, d)
  /\ IF ActLoopCond(ps, pg) /\ ~d.paging.is_end
       THEN /\ pc' = "await_next"
            /\ fetchLog' = Append(fetchLog, get_json(d.paging.next))
            /\ UNCHANGED <<status, handed>>
       ELSE /\ pc' = "done"
            /\ status' = 200
            /\ handed' = [made |-> TRUE, posts |-> ps,
                          digest |-> DigestFlag(digestArg),
                          extra_types |-> ActExtraTypes]
            /\ UNCHANGED fetchLog

ActFirstReply(r) ==
  /\ pc = "await_first" /\ handler = "ZhihuStream"
  /\ lastReply' = IF r.ok THEN "ok" ELSE "fail"
  /\ IF ~r.ok THEN RaiseOut(500)
     ELSE ActAfterPage(ActTargets(r.data.data), 0, r.data)
  /\ UNCHANGED <<handler, name, digestArg, sortArg>>
  /\ UNCHANGED normVars

ActNextReply(r) ==
  /\ pc = "await_next" /\ handler = "ZhihuStream"
  /\ lastReply' = IF r.ok THEN "ok" ELSE "fail"
  /\ IF ~r.ok THEN RaiseOut(500)
     ELSE ActAfterPage(posts \o ActTargets(r.data.data), page + 1, r.data)
  /\ UNCHANGED <<handler, name, digestArg, sortArg>>
  /\ UNCHANGED normVars

\* ZhihuTopic.get up to its first await: the topic page fetch of topic2rss.
TopicGet ==
  /\ pc = "start" /\ handler = "ZhihuTopic"
  /\ IF EndsWithSpace(name)
       THEN /\ pc' = "done"
            /\ status' = 404
            /\ UNCHANGED fetchLog
       ELSE /\ pc' = "await_info"
            /\ fetchLog' = Append(fetchLog, topic_info_url(name))
            /\ UNCHANGED status
  /\ UNCHANGED <<handler, name, digestArg, sortArg, posts, page, data,
                 delivered, lastReply, handed>>
  /\ UNCHANGED normVars

\* ZhihuAPI.topic_info resumes; on a body topic2rss goes on to
\* zhihu_api.topic(id, sort) and awaits the first page.
TopicInfoReply(r) ==
  /\ pc = "await_info"
  /\ lastReply' = r
  /\ IF TopicInfoOutcome(r) # 0 THEN RaiseOut(TopicInfoOutcome(r))
     ELSE /\ pc' = "await_first"
          /\ fetchLog' = Append(fetchLog,
                                get_json(topic_url(name, SortOf(sortArg))))
          /\ UNCHANGED <<status, posts, page, data, delivered, handed>>
  /\ UNCHANGED <<handler, name, digestArg, sortArg>>
  /\ UNCHANGED normVars

TopicAfterPage(ps, pg, d) ==
  /\ posts' = ps
  /\ page' = pg
  /\ data' = d
  /\ delivered' = Append(delivered, d)
  /\ IF TopicLoopCond(ps, pg) /\ ~d.paging.is_end
       THEN /\ pc' = "await_next"
            /\ fetchLog' = Append(fetchLog,
                                  get_json(TopicNextUrl(d.paging.next)))
            /\ UNCHANGED <<status, handed>>
       ELSE /\ pc' = "done"
            /\ status' = 200
            /\ handed' = [made |-> TRUE, posts |-> ps,
                          digest |-> FALSE,
                          extra_types |-> TopicExtraTypes]
            /\ UNCHANGED fetchLog

TopicFirstReply(r) ==
  /\ pc = "await_first" /\ handler = "ZhihuTopic"
  /\ lastReply' = IF r.ok THEN "ok" ELSE "fail"
  /\ IF ~r.ok THEN RaiseOut(500)
     ELSE TopicAfterPage(TopicTargets(r.data.data), 0, r.data)
  /\ UNCHANGED <<handler, name, digestArg, sortArg>>
  /\ UNCHANGED normVars

TopicNextReply(r) ==
  /\ pc = "await_next" /\ handler = "ZhihuTopic"
  /\ lastReply' = IF r.ok THEN "ok" ELSE "fail"
  /\ IF ~r.ok THEN RaiseOut(500)
     ELSE TopicAfterPage(posts \o TopicTargets(r.data.data), page + 1, r.data)
  /\ UNCHANGED <<handler, name, digestArg, sortArg>>
  /\ UNCHANGED normVars

Next ==
  \/ StreamGet
  \/ \E r \in HtmlReplies : CardReply(r)
  \/ \E r \in ApiReplies : ActFirstReply(r)
  \/ \E r \in ApiReplies : ActNextReply(r)
  \/ TopicGet
  \/ \E r \in HtmlReplies : TopicInfoReply(r)
  \/ \E r \in ApiReplies : TopicFirstReply(r)
  \/ \E r \in ApiReplies : TopicNextReply(r)

Spec == Init /\ [][Next]_vars

\* The coroutine is resumed whenever its fetch completes, and the transport
\* completes every fetch (with a reply or an exception).
FairSpec == Spec /\ WF_vars(Next)

----------------------------------------------------------------------------
(* post2rss and post_content. *)

\* A post is its type, the set of keys present in the dict (nested keys are
\* written with a dot), and the values of its text fields.
Keys == {"id", "title", "created", "created_time", "author", "author.name",
         "question", "question.title", "question.id", "excerpt", "content",
         "thumbnail"}

Types == {"answer", "article", "question", "roundtable", "live", "column",
          "pin"}

\* key k can be read: it is present, and so is the dict that holds it
Has(post, k) ==
  /\ k \in post.has
  /\ (k \in {"question.title", "question.id"} => "question" \in post.has)
  /\ (k = "author.name" => "author" \in post.has)

\* x in container, for a tuple of strings or for a string
PyIn_ElementsOnly(x, container) ==
  \E i \in 1..Len(container.elems) : container.elems[i] = x

PyIn(x, container) ==
  IF container.tuple
    THEN \E i \in 1..Len(container.elems) : container.elems[i] = x
    ELSE Contains(container.str, x)

\* mutant: digest is tested before the question type
post_content_DigestFirst(post, digest) ==
  IF digest
    THEN (IF Has(post, "excerpt") THEN [ok |-> TRUE, text |-> post.excerpt]
          ELSE [ok |-> FALSE, text |-> <<>>])
  ELSE IF post.type = "question"
    THEN (IF Has(post, "title") THEN [ok |-> TRUE, text |-> post.title]
          ELSE [ok |-> FALSE, text |-> <<>>])
  ELSE IF ~Has(post, "content")
    THEN (IF Has(post, "excerpt") THEN [ok |-> TRUE, text |-> post.excerpt]
          ELSE [ok |-> FALSE, text |-> <<>>])
  ELSE [ok |-> TRUE, text |-> post.content]

\* post_content: the selected text, or ok = FALSE when the subscript it
\* takes raises KeyError
post_content(post, digest) ==
  IF post.type = "question"
    THEN (IF Has(post, "title") THEN [ok |-> TRUE, text |-> post.title]
          ELSE [ok |-> FALSE, text |-> <<>>])
  ELSE IF digest
    THEN (IF Has(post, "excerpt") THEN [ok |-> TRUE, text |-> post.excerpt]
          ELSE [ok |-> FALSE, text |-> <<>>])
  ELSE IF ~Has(post, "content")
    THEN (IF Has(post, "excerpt") THEN [ok |-> TRUE, text |-> post.excerpt]
          ELSE [ok |-> FALSE, text |-> <<>>])
  ELSE [ok |-> TRUE, text |-> post.content]

\* the if/elif chain of post2rss: which branch a post takes
Branch(post, extra_types) ==
  IF post.type = "answer" THEN "answer"
  ELSE IF post.type = "article" THEN "article"
  ELSE IF PyIn(QuestionStr, extra_types) /\ post.type = "question"
    THEN "question"
  ELSE IF post.type \in {"roundtable", "live", "column"} THEN "skip"
  ELSE "unknown"

\* mutant: the article branch reads the id with post.get('id')
BranchKeys_GetId(branch) ==
  IF branch = "answer"
    THEN {"question.title", "question.id", "id", "created_time", "author.name"}
  ELSE IF branch = "article" THEN {"title", "created", "author.name"}
  ELSE IF branch = "question" THEN {"title", "id", "created"}
  ELSE {}

\* the keys a branch reads with a subscript, each raising KeyError if absent
BranchKeys(branch) ==
  IF branch = "answer"
    THEN {"question.title", "question.id", "id", "created_time", "author.name"}
  ELSE IF branch = "article" THEN {"title", "id", "created", "author.name"}
  ELSE IF branch = "question" THEN {"title", "id", "created"}
  ELSE {}

OpenCodeSp == <<"<", "c", "o", "d", "e", " ">>
CloseCode  == <<"<", "/", "c", "o", "d", "e", ">">>
OpenPre    == <<"<", "p", "r", "e", ">">>
ClosePre   == <<"<", "/", "p", "r", "e", ">">>
Backspace  == <<"BS">>
NoneStr    == <<"N", "o", "n", "e">>

\* content.replace('<code ', '<pre><code ').replace('</code>', '</code></pre>')
CodeBlocks(content) ==
  Replace(Replace(content, OpenCodeSp, OpenPre \o OpenCodeSp),
          CloseCode, CloseCode \o ClosePre)

\* '<img src="%s">' % post.get('thumbnail')
ImgTag(post) ==
  <<"<", "i", "m", "g", " ", "s", "r", "c", "=", "\"">>
  \o (IF Has(post, "thumbnail") THEN post.thumbnail ELSE NoneStr)
  \o <<"\"", ">">>

\* the body handed to lxml: rewritten content, or the picture when empty
Body(content, post) ==
  IF CodeBlocks(content) = <<>> THEN ImgTag(post) ELSE CodeBlocks(content)

\* s.replace('\x08', '')
StripBackspace(s) == Replace(s, Backspace, <<>>)

Raised == [kind |-> "raise", title |-> <<>>, link |-> <<>>,
           description |-> <<>>, pubDate |-> 0, author |-> <<>>]
Nothing == [kind |-> "none", title |-> <<>>, link |-> <<>>,
            description |-> <<>>, pubDate |-> 0, author |-> <<>>]

\* post2rss: the RSSItem, None (kind "none"), or a KeyError (kind "raise").
\* The lxml passes between the body and the description (fromstring,
\* tidy_content, proxify_pic, tostring) are outside this module and leave the
\* description as the body.
post2rss(post, digest, extra_types) ==
  LET b == Branch(post, extra_types)
      c == post_content(post, digest)
  IN  IF b \in {"skip", "unknown"} THEN Nothing
      ELSE IF \E k \in BranchKeys(b) : ~Has(post, k) THEN Raised
      ELSE IF ~c.ok THEN Raised
      ELSE [kind |-> "item",
            title |-> StripBackspace(
                        (IF b = "answer" THEN <<"[huida] ">> \o post.qtitle
                         ELSE IF b = "article" THEN <<"[wenzhang] ">> \o post.title
                         ELSE <<"[wenti] ">> \o post.title)),
            link |-> (IF b = "answer"
                        THEN <<"www.zhihu.com", "question", post.qid,
                               "answer", post.id>>
                      ELSE IF b = "article"
                        THEN <<"zhuanlan.zhihu.com", "p", post.id>>
                      ELSE <<"www.zhihu.com", "question", post.id>>),
            description |-> StripBackspace(Body(c.text, post)),
            pubDate |-> (IF b = "answer" THEN post.created_time
                         ELSE post.created),
            author |-> (IF b = "question" THEN NoneStr ELSE post.author)]

\* Inputs of the normalizer.
MaxFrags == 2

Frags == {<<"<", "c", "o", "d", "e", ">">>,
          <<"<", "c", "o", "d", "e", " ", "k", ">">>,
          CloseCode,
          <<"x">>}

RECURSIVE FragStrings(_)
FragStrings(n) ==
  IF n = 0 THEN {<<>>}
  ELSE FragStrings(n - 1)
       \cup {f \o t : f \in Frags, t \in FragStrings(n - 1)}

\* the key sets absent from a post: none, or any single key
MissingSets == {{}} \cup {{k} : k \in Keys}

Posts ==
  {[type |-> t, has |-> Keys \ m,
    id |-> "7", qid |-> "3", created |-> 100, created_time |-> 200,
    author |-> <<"A">>, qtitle |-> <<"Q">>,
    title |-> ti, excerpt |-> ex, content |-> co, thumbnail |-> <<"u">>] :
   t \in Types, m \in MissingSets,
   ti \in {<<>>, <<"T", "BS">>}, ex \in {<<>>, <<"e">>},
   co \in FragStrings(MaxFrags)}

\* ('question',): a real one-element tuple
TupleQuestion == [tuple |-> TRUE, elems |-> <<QuestionStr>>, str |-> <<>>]

ExtraTypesValues == {ActExtraTypes, TopicExtraTypes, TupleQuestion}

ReqIdle ==
  /\ handler = "none"
  /\ name = <<>>
  /\ digestArg = "none"
  /\ sortArg = "none"
  /\ pc = "idle"
  /\ status = 0
  /\ posts = <<>>
  /\ page = 0
  /\ data = NoData
  /\ fetchLog = <<>>
  /\ delivered = <<>>
  /\ lastReply = "none"
  /\ handed = NoFeed

NormInit ==
  /\ ReqIdle
  /\ npc = "call"
  /\ npost \in Posts
  /\ ndigest \in BOOLEAN
  /\ nextra \in ExtraTypesValues
  /\ nresult = [kind |-> "pending"]

\* one call of post2rss
Post2rssCall ==
  /\ npc = "call"
  /\ nresult' = post2rss(npost, ndigest, nextra)
  /\ npc' = "ret"
  /\ UNCHANGED <<npost, ndigest, nextra>>
  /\ UNCHANGED reqVars

NormNext == Post2rssCall

SpecNorm == NormInit /\ [][NormNext]_vars

----------------------------------------------------------------------------
(* Claims about the pagination walk and the handlers. *)

IsApiUrl(u) == StartsWith(u.path, <<"api", "v4">>)

\* the items of all delivered pages, in delivery order
RECURSIVE Flatten(_)
Flatten(pages) ==
  IF pages = <<>> THEN <<>> ELSE Head(pages).data \o Flatten(Tail(pages))

IsAccepted(x) ==
  handler = "ZhihuTopic" \/ x.verb = "ANSWER_CREATE"
                         \/ x.verb = "MEMBER_CREATE_ARTICLE"

AcceptedCount(pg) == Len(SelectSeq(pg.data, IsAccepted))

\* C1: whenever the pagination loop exits normally (the posts reach the feed
\* assembler), the list holds at least 20 items, or the most recently fetched
\* page reported is_end, or exactly 3 pages were fetched after the first.
C1_LoopExit ==
  handed.made =>
    \/ Len(handed.posts) >= 20
    \/ data.paging.is_end
    \/ page = 3

\* a walk that ended on the page budget alone
C1_Witness ==
  /\ handed.made
  /\ Len(handed.posts) < 20
  /\ ~data.paging.is_end
  /\ page = 3

\* C2: the walk always terminates, and at most 3 pages are requested after the
\* first one (4 page requests, 5 requests with the metadata fetch), whatever
\* upstream answers.
C2_BoundedWalk ==
  /\ [](page <= 3 /\ Len(SelectSeq(fetchLog, IsApiUrl)) <= 4)
  /\ <>(pc = "done")

\* upstream never reported is_end and delivered no accepted item at all
C2_Witness ==
  /\ pc = "done"
  /\ Len(SelectSeq(fetchLog, IsApiUrl)) = 4
  /\ Len(delivered) = 4
  /\ \A i \in 1..4 : ~delivered[i].paging.is_end /\ AcceptedCount(delivered[i]) = 0
  /\ delivered[1].data # <<>>

\* C3: the list handed to the feed assembler is the accepted items of all
\* fetched pages in delivery order: nothing dropped, reordered, deduplicated
\* or let through the filter.
C3_OrderPreserved ==
  handed.made =>
    LET acc == SelectSeq(Flatten(delivered), IsAccepted)
    IN  /\ Len(handed.posts) = Len(acc)
        /\ \A i \in 1..Len(acc) : handed.posts[i] = acc[i].target

\* a user walk over several pages with a rejected item and a repeated item
C3_Witness ==
  /\ handed.made
  /\ handler = "ZhihuStream"
  /\ Len(delivered) >= 2
  /\ \E i \in 1..Len(Flatten(delivered)) : ~IsAccepted(Flatten(delivered)[i])
  /\ \E i, j \in 1..Len(handed.posts) : i < j /\ handed.posts[i] = handed.posts[j]
  /\ \E i, j \in 1..Len(handed.posts) : handed.posts[i] # handed.posts[j]

\* C4: a user-stream request whose identifier ends with a space, or whose
\* profile card comes back empty, ends with 404 and no activities page is ever
\* requested; an activities page is only requested after the profile card.
C4_NotFound ==
  handler = "ZhihuStream" =>
    /\ (EndsWithSpace(name) /\ pc # "start") =>
          (pc = "done" /\ status = 404 /\ fetchLog = <<>>)
    /\ (lastReply = "empty") =>
          /\ pc = "done" /\ status = 404
          /\ \A i \in 1..Len(fetchLog) : ~IsApiUrl(fetchLog[i])
    /\ \A i \in 1..Len(fetchLog) :
          IsApiUrl(fetchLog[i]) => (i > 1 /\ ~IsApiUrl(fetchLog[1]))

\* the profile card came back empty
C4_Witness ==
  /\ handler = "ZhihuStream"
  /\ lastReply = "empty"
  /\ status = 404
  /\ Len(fetchLog) = 1

\* C5: a failed upstream fetch ends the request with the error: no feed is
\* handed over, not even from pages already fetched, and nothing is requested
\* afterwards.
C5_AllOrNothing ==
  /\ [](lastReply = "fail" => (pc = "done" /\ status = 500 /\ ~handed.made))
  /\ [][lastReply = "fail" => fetchLog' = fetchLog]_vars

\* a following page failed after pages with accepted items had arrived
C5_Witness ==
  /\ lastReply = "fail"
  /\ pc = "done"
  /\ page >= 1
  /\ Len(posts) > 0

\* C9: after a page of a user stream arrived, the next page is requested if
\* and only if fewer than 20 items are held, fewer than 3 pages were fetched
\* after the first and the page did not report is_end, and the request goes to
\* that page's cursor; pages of 15 then 10 accepted items give 1 extra fetch
\* and all 25 items.
C9_NextFetch ==
  /\ [][(handler = "ZhihuStream" /\ pc \in {"await_first", "await_next"}
         /\ lastReply' = "ok")
        => /\ (Len(fetchLog') = Len(fetchLog) + 1)
                <=> (Len(posts') < 20 /\ page' < 3 /\ ~data'.paging.is_end)
           /\ (Len(fetchLog') = Len(fetchLog) + 1)
                => fetchLog'[Len(fetchLog')] = data'.paging.next
           /\ Len(fetchLog') \in {Len(fetchLog), Len(fetchLog) + 1}]_vars
  /\ []((/\ handler = "ZhihuStream"
         /\ Len(delivered) >= 2
         /\ AcceptedCount(delivered[1]) = 15
         /\ AcceptedCount(delivered[2]) = 10)
        => (/\ pc = "done" /\ handed.made
            /\ Len(delivered) = 2 /\ page = 1
            /\ Len(SelectSeq(fetchLog, IsApiUrl)) = 2
            /\ Len(handed.posts) = 25))

\* 15 then 10 accepted items
C9_Witness ==
  /\ handler = "ZhihuStream"
  /\ Len(delivered) = 2
  /\ AcceptedCount(delivered[1]) = 15
  /\ AcceptedCount(delivered[2]) = 10
  /\ Len(handed.posts) = 25

----------------------------------------------------------------------------
(* Claims about post2rss. *)

\* extra_types values that hold the kind 'question'
AcceptsQuestion(e) == e = TopicExtraTypes \/ e = TupleQuestion

Recognized(post, e) ==
  \/ post.type \in {"answer", "article"}
  \/ post.type = "question" /\ AcceptsQuestion(e)

\* the fields an item of each kind cannot do without: its ids, its title,
\* its creation timestamp, its author
RequiredFields(type) ==
  IF type = "answer"
    THEN {"id", "question", "question.id", "question.title", "created_time",
          "author", "author.name"}
  ELSE IF type = "article"
    THEN {"id", "title", "created", "author", "author.name"}
  ELSE {"id", "title", "created"}

Malformed(post) == \E k \in RequiredFields(post.type) : k \notin post.has

C7_KindDispatch ==
  (npc = "ret" /\ Keys \ {"content", "thumbnail"} \subseteq npost.has) =>
    /\ npost.type \in {"answer", "article"} => nresult.kind = "item"
    /\ npost.type = "question" =>
         /\ nresult.kind \in {"item", "none"}
         /\ nresult.kind = "item" <=> AcceptsQuestion(nextra)
         /\ nextra = TopicExtraTypes => nresult.kind = "item"
         /\ nextra = ActExtraTypes => nresult.kind = "none"
    /\ npost.type \notin {"answer", "article", "question"}
         => nresult.kind = "none"

\* a question normalized with the extra_types of topic2rss
C7_Witness ==
  /\ npc = "ret"
  /\ npost.has = Keys
  /\ npost.type = "question"
  /\ nextra = TopicExtraTypes
  /\ nresult.kind = "item"

ImgOpen == <<"<", "i", "m", "g", " ", "s", "r", "c", "=", "\"">>
ImgClose == <<"\"", ">">>

\* C8: the body of an entry is the title for a question (digest or not), else
\* the excerpt in digest mode, else the excerpt when the item has no content
\* field, else the content; and an empty selection becomes an <img> tag of
\* the thumbnail (of the text None when the item has no thumbnail).
C8_BodySelection ==
  (npc = "ret" /\ nresult.kind = "item") =>
    LET sel == IF npost.type = "question" THEN npost.title
               ELSE IF ndigest THEN npost.excerpt
               ELSE IF "content" \notin npost.has THEN npost.excerpt
               ELSE npost.content
        thumb == IF "thumbnail" \in npost.has THEN npost.thumbnail
                 ELSE <<"N", "o", "n", "e">>
    IN  IF sel = <<>>
          THEN nresult.description = ImgOpen \o thumb \o ImgClose
          ELSE nresult.description = StripBackspace(CodeBlocks(sel))

\* digest mode on an answer with content and an empty excerpt: the picture
C8_Witness ==
  /\ npc = "ret"
  /\ nresult.kind = "item"
  /\ npost.type = "answer"
  /\ ndigest
  /\ "content" \in npost.has /\ npost.content # <<>>
  /\ npost.excerpt = <<>>
  /\ nresult.description = ImgOpen \o npost.thumbnail \o ImgClose

\* number of places where pat occurs in s
Occurrences(s, pat) ==
  Cardinality({i \in 1..Len(s) : i + Len(pat) - 1 <= Len(s)
                                  /\ SubSeq(s, i, i + Len(pat) - 1) = pat})

\* C10: in the rewritten body every opening code tag, with or without
\* attributes, directly follows an inserted <pre>, every </code> is directly
\* followed by an inserted </pre>, and there are as many <pre> as </pre>.
C10_CodeWrapped ==
  (/\ npc = "ret" /\ nresult.kind = "item"
   /\ npost.type = "answer" /\ ~ndigest /\ "content" \in npost.has
   /\ npost.content # <<>>) =>
    LET d == nresult.description
    IN  /\ \A i \in 1..Len(d) :
             (/\ i + 5 <= Len(d)
              /\ SubSeq(d, i, i + 4) = <<"<", "c", "o", "d", "e">>
              /\ d[i + 5] \in {" ", ">"})
             => (i > 5 /\ SubSeq(d, i - 5, i - 1) = OpenPre)
        /\ \A i \in 1..Len(d) :
             (i + 6 <= Len(d) /\ SubSeq(d, i, i + 6) = CloseCode)
             => (i + 12 <= Len(d) /\ SubSeq(d, i + 7, i + 12) = ClosePre)
        /\ Occurrences(d, OpenPre) = Occurrences(d, ClosePre)

====
